---- MODULE Spec2Model ----
(***************************************************************************)
(* A model of the Hungarian (Kuhn-Munkres) assignment solver of            *)
(* munkres.go: NewHungarianAlgorithm (validation, padding) and Execute     *)
(* (reduce, computeInitialFeasibleSolution, greedyMatch, the phase loop    *)
(* and the extraction of the result).                                      *)
(*                                                                         *)
(* Slices are functions over 0..n-1, as in the source; -1 is the source's  *)
(* "unmatched"/"not reached" sentinel.  Costs are integers (float64        *)
(* arithmetic is exact on them).  An entry of the caller's matrix is a     *)
(* record [k, v]: k is "num" for a finite number v, "inf" for an infinity  *)
(* of either sign and "nan" for a NaN.                                     *)
(***************************************************************************)
EXTENDS Integers, Sequences, FiniteSets, TLC

VARIABLES input, pc, err,
          costMatrix, rows, cols, dim,
          labelByWorker, labelByJob,
          minSlackWorkerByJob, minSlackValueByJob,
          matchJobByWorker, matchWorkerByJob,
          parentWorkerByCommittedJob, committedWorkers,
          minSlackWorker, minSlackJob,
          result

vars == <<input, pc, err, costMatrix, rows, cols, dim, labelByWorker,
          labelByJob, minSlackWorkerByJob, minSlackValueByJob,
          matchJobByWorker, matchWorkerByJob, parentWorkerByCommittedJob,
          committedWorkers, minSlackWorker, minSlackJob, result>>

hstate == <<costMatrix, rows, cols, dim, labelByWorker, labelByJob,
            minSlackWorkerByJob, minSlackValueByJob, matchJobByWorker,
            matchWorkerByJob, parentWorkerByCommittedJob, committedWorkers>>

-----------------------------------------------------------------------------
(* Bounds of the model.                                                    *)

\* Largest number of rows and of columns of an input matrix.
MaxDim == 4
\* Largest sum, over the entries of an input matrix, of what they fall
\* short of the cost 1.
MaxWeight == 3
\* Largest amount added to one entry of the matrix of the "unassigned
\* worker" test to obtain the 5 x 4 inputs of SpecTest.
MaxBump == 1

-----------------------------------------------------------------------------
(* Slices.                                                                 *)

Len0(s) == Cardinality(DOMAIN s)

Idx(n) == 0 .. (n - 1)

Fill(n, v) == [i \in Idx(n) |-> v]

\* The slice s as an array that holds its elements (the same function, its
\* values computed once).
Stored(s) == s @@ <<>>

SetMin(S) == CHOOSE m \in S : \A x \in S : m <= x

Num(v) == [k |-> "num", v |-> v]

Inf == [k |-> "inf", v |-> 0]

NaN == [k |-> "nan", v |-> 0]

IsInf(x) == x.k = "inf"

IsNaN(x) == x.k = "nan"

ErrorIrregularCostMatrix == "Irregular cost matrix"

ErrorInfiniteCost == "Infinite cost"

ErrorNaNCost == "NaN cost"

-----------------------------------------------------------------------------
(* The caller's matrices.                                                  *)

RECURSIVE Summed(_, _)
\* The pairs <<t, total>> of a sequence t of n natural numbers and their
\* sum, for the sequences that sum to at most s.
Summed(n, s) ==
    IF n = 0 THEN {<<<<>>, 0>>}
    ELSE {<<Append(p[1][1], p[2]), p[1][2] + p[2]>> :
            p \in {q \in Summed(n - 1, s) \X (0 .. s) : q[1][2] + q[2] <= s}}

\* The sequences of n natural numbers that sum to at most s.
Discounts(n, s) == {p[1] : p \in Summed(n, s)}

\* The r x c matrix whose entries, row by row, are the numbers of d.
Matrix(r, c, d) == [w \in Idx(r) |-> [j \in Idx(c) |-> Num(d[w * c + j + 1])]]

\* The r x c matrix whose entries, row by row, fall short of 1 by the
\* numbers of d: costs of both signs, 1 where nothing is taken off.
Discounted(r, c, d) ==
    [w \in Idx(r) |-> [j \in Idx(c) |-> Num(1 - d[w * c + j + 1])]]

\* Rectangular matrices of finite costs, negative ones included, of every
\* shape up to MaxDim x MaxDim; the matrix of no rows is among them.
IsIntMatrix(in) ==
    \E r \in 0 .. MaxDim, c \in 0 .. MaxDim :
        \E d \in Discounts(r * c, MaxWeight) : in = Discounted(r, c, d)

\* The all-zero matrix of r rows of c entries, but l entries in row v.
Ragged(r, c, v, l) ==
    [w \in Idx(r) |-> [j \in Idx(IF w = v THEN l ELSE c) |-> Num(0)]]

\* Matrices the constructor has to judge: at most one row of another length
\* than the others, and at most one entry that is an infinity or a NaN.
IsJudgedMatrix(in) ==
    \E r \in 1 .. MaxDim, c \in 0 .. MaxDim :
        \E v \in Idx(r), l \in 0 .. MaxDim :
            \/ in = Ragged(r, c, v, l)
            \/ \E w \in Idx(r), j \in Idx(MaxDim), x \in {Inf, NaN} :
                  /\ j \in DOMAIN Ragged(r, c, v, l)[w]
                  /\ in = [Ragged(r, c, v, l) EXCEPT ![w][j] = x]

\* The matrix of the "unassigned worker" test: 5 workers, 4 jobs, the fifth
\* row all zeros.
UnassignedWorkerTest ==
    Matrix(5, 4, <<6, 0, 7, 5,
                   2, 6, 2, 6,
                   2, 7, 2, 1,
                   9, 4, 7, 1,
                   0, 0, 0, 0>>)

\* 5 x 4 matrices with an all-zero fifth row: the test's matrix, and the
\* test's matrix with one entry of its first four rows raised.
ZeroFifthRowMatrices ==
    {[UnassignedWorkerTest EXCEPT ![w][j] = Num(@.v + b)] :
       <<w, j, b>> \in Idx(4) \X Idx(4) \X (0 .. MaxBump)}

-----------------------------------------------------------------------------
(* NewHungarianAlgorithm.                                                  *)

\* Lines 75-82: the error the scan of one row ends with, "" if none.
RECURSIVE RowError(_, _)
RowError(row, j) ==
    IF j >= Len0(row) THEN ""
    ELSE IF IsInf(row[j]) THEN ErrorInfiniteCost
    ELSE IF IsNaN(row[j]) THEN ErrorNaNCost
    ELSE RowError(row, j + 1)

\* RowOutcome with the two tests in the other order: the entries of a row
\* are scanned before its length is compared.
RowOutcomeEntriesFirst(row, c) ==
    IF RowError(row, 0) # "" THEN RowError(row, 0)
    ELSE IF Len0(row) # c THEN ErrorIrregularCostMatrix ELSE ""

\* Lines 72-82: the error one row of the caller's matrix ends the
\* constructor with, "" if none: its length is tested before its entries.
RowOutcome(row, c) ==
    IF Len0(row) # c THEN ErrorIrregularCostMatrix ELSE RowError(row, 0)

\* Line 69: the rows the loop skips as padding rows.
IsPaddingRow(w, in) == w > Len0(in)

\* Lines 67-84: the outcome of the loop from row w on: "" when every row
\* was accepted, an error's text, or "panic" for an index out of range.
RECURSIVE ValidateFrom(_, _, _, _)
ValidateFrom(in, w, c, d) ==
    IF w >= d THEN ""
    ELSE IF IsPaddingRow(w, in) THEN ValidateFrom(in, w + 1, c, d)
    ELSE IF w \notin DOMAIN in THEN "panic"
    ELSE IF RowOutcome(in[w], c) # "" THEN RowOutcome(in[w], c)
    ELSE ValidateFrom(in, w + 1, c, d)

\* Lines 49-52.
DimOf(in) == IF Len0(in[0]) > Len0(in) THEN Len0(in[0]) ELSE Len0(in)

\* Lines 48-90: "panic", an error's text, or "" for a nil error.
NewOutcome(in) ==
    IF Len0(in) = 0 THEN "panic"
    ELSE ValidateFrom(in, 0, Len0(in[0]), DimOf(in))

\* Lines 54, 68, 83: the dim x dim copy, zero where the caller has no entry.
Padded(in, d) ==
    [w \in Idx(d) |-> [j \in Idx(d) |->
        IF w \in DOMAIN in /\ j \in DOMAIN in[w] THEN in[w][j].v ELSE 0]]

NewHungarianAlgorithm ==
    /\ pc = "new"
    /\ LET out == NewOutcome(input) IN
       IF out = "panic"
       THEN /\ pc' = "panic"
            /\ UNCHANGED <<err, hstate>>
       ELSE IF out # ""
       THEN /\ pc' = "error"
            /\ err' = out
            /\ UNCHANGED hstate
       ELSE /\ pc' = "reduce"
            /\ err' = ""
            /\ rows' = Len0(input)
            /\ cols' = Len0(input[0])
            /\ dim' = DimOf(input)
            /\ costMatrix' = Padded(input, DimOf(input))
            /\ labelByWorker' = Fill(DimOf(input), 0)
            /\ labelByJob' = Fill(DimOf(input), 0)
            /\ minSlackWorkerByJob' = Fill(DimOf(input), 0)
            /\ minSlackValueByJob' = Fill(DimOf(input), 0)
            /\ committedWorkers' = Fill(DimOf(input), FALSE)
            /\ parentWorkerByCommittedJob' = Fill(DimOf(input), 0)
            /\ matchJobByWorker' = Fill(DimOf(input), -1)
            /\ matchWorkerByJob' = Fill(DimOf(input), -1)
    /\ UNCHANGED <<input, minSlackWorker, minSlackJob, result>>

-----------------------------------------------------------------------------
(* Execute and its helpers.                                                *)

\* Lines 219-220, 189-191, 242-244: the slack of the edge (w, j).
Slack(cm, lw, lj, w, j) == cm[w][j] - lw[w] - lj[j]

\* Lines 260-270: every row less its smallest element.
ReduceRows(cm, d) ==
    Stored([w \in Idx(d) |->
        LET min == SetMin({cm[w][k] : k \in Idx(d)})
        IN  Stored([j \in Idx(d) |-> cm[w][j] - min])])

\* Lines 271-286: every column less its smallest element.
ReduceCols(cm, d) ==
    LET min == Stored([j \in Idx(d) |-> SetMin({cm[x][j] : x \in Idx(d)})])
    IN  [w \in Idx(d) |-> [j \in Idx(d) |-> cm[w][j] - min[j]]]

\* Lines 259-287.
reduce ==
    /\ pc = "reduce"
    /\ LET byRows == ReduceRows(costMatrix, dim)
       IN  costMatrix' = ReduceCols(byRows, dim)
    /\ pc' = "label"
    /\ UNCHANGED <<input, err, rows, cols, dim, labelByWorker, labelByJob,
                   minSlackWorkerByJob, minSlackValueByJob, matchJobByWorker,
                   matchWorkerByJob, parentWorkerByCommittedJob,
                   committedWorkers, minSlackWorker, minSlackJob, result>>

\* Lines 96-105: the label of job j, the least cost of its column.
InitialLabelByJob(cm, d) ==
    [j \in Idx(d) |-> SetMin({cm[w][j] : w \in Idx(d)})]

\* Lines 95-106.
computeInitialFeasibleSolution ==
    /\ pc = "label"
    /\ labelByJob' = InitialLabelByJob(costMatrix, dim)
    /\ pc' = "greedy"
    /\ UNCHANGED <<input, err, costMatrix, rows, cols, dim, labelByWorker,
                   minSlackWorkerByJob, minSlackValueByJob, matchJobByWorker,
                   matchWorkerByJob, parentWorkerByCommittedJob,
                   committedWorkers, minSlackWorker, minSlackJob, result>>

\* Lines 250-253: the two matching arrays, as a pair, after match(w, j).
match(m, w, j) == <<[m[1] EXCEPT ![w] = j], [m[2] EXCEPT ![j] = w]>>

\* Lines 217-220: the test greedyMatch makes of the pair (w, j).
GreedyTakes(m, cm, lw, lj, w, j) ==
    /\ m[1][w] = -1
    /\ m[2][j] = -1
    /\ Slack(cm, lw, lj, w, j) = 0

\* Lines 215-224: the scan in row-major order from pair number k on.
RECURSIVE GreedyFrom(_, _, _, _, _, _)
GreedyFrom(m, cm, lw, lj, d, k) ==
    IF k >= d * d THEN m
    ELSE LET w == k \div d
             j == k % d
         IN  GreedyFrom(IF GreedyTakes(m, cm, lw, lj, w, j)
                        THEN match(m, w, j) ELSE m,
                        cm, lw, lj, d, k + 1)

\* Lines 214-225.
greedyMatch ==
    /\ pc = "greedy"
    /\ LET m == GreedyFrom(<<matchJobByWorker, matchWorkerByJob>>, costMatrix,
                           labelByWorker, labelByJob, dim, 0)
       IN  /\ matchJobByWorker' = m[1]
           /\ matchWorkerByJob' = m[2]
    /\ pc' = "fetch"
    /\ UNCHANGED <<input, err, costMatrix, rows, cols, dim, labelByWorker,
                   labelByJob, minSlackWorkerByJob, minSlackValueByJob,
                   parentWorkerByCommittedJob, committedWorkers,
                   minSlackWorker, minSlackJob, result>>

\* Lines 203-210.
fetchUnmatchedWorker(mjw, d) ==
    IF \E w \in Idx(d) : mjw[w] = -1
    THEN SetMin({w \in Idx(d) : mjw[w] = -1})
    ELSE d

\* Lines 241-246: the slack of every job against the root worker w.
RootSlack(cm, lw, lj, d, w) == [j \in Idx(d) |-> Slack(cm, lw, lj, w, j)]

\* Lines 121-122 and 233-247: the loop of Execute finds an unmatched worker
\* and roots the next phase at it.
initializePhase ==
    /\ pc = "fetch"
    /\ fetchUnmatchedWorker(matchJobByWorker, dim) < dim
    /\ LET w == fetchUnmatchedWorker(matchJobByWorker, dim) IN
       /\ committedWorkers' = [Fill(dim, FALSE) EXCEPT ![w] = TRUE]
       /\ parentWorkerByCommittedJob' = Fill(dim, -1)
       /\ minSlackValueByJob' =
              RootSlack(costMatrix, labelByWorker, labelByJob, dim, w)
       /\ minSlackWorkerByJob' = Fill(dim, w)
    /\ pc' = "phase"
    /\ UNCHANGED <<input, err, costMatrix, rows, cols, dim, labelByWorker,
                   labelByJob, matchJobByWorker, matchWorkerByJob,
                   minSlackWorker, minSlackJob, result>>

\* Line 156: the jobs the tree has not reached.
Unreached(parent, d) == {j \in Idx(d) : parent[j] = -1}

\* MinSlackJobOf without the test of line 156: jobs the tree has reached are
\* candidates too.
MinSlackJobOfAny(parent, msv, d) ==
    CHOOSE j \in Idx(d) :
        \A k \in Idx(d) : msv[j] < msv[k] \/ (msv[j] = msv[k] /\ j <= k)

\* MinSlackJobOf with <= for < at line 157: among jobs of equal slack the
\* last one is selected.
MinSlackJobOfLast(parent, msv, d) ==
    IF Unreached(parent, d) = {} THEN -1
    ELSE CHOOSE j \in Unreached(parent, d) :
            \A k \in Unreached(parent, d) :
                msv[j] < msv[k] \/ (msv[j] = msv[k] /\ j >= k)

\* Lines 152-163: the first job, among those not reached, of least cached
\* slack; -1 when the tree has reached every job.
MinSlackJobOf(parent, msv, d) ==
    IF Unreached(parent, d) = {} THEN -1
    ELSE CHOOSE j \in Unreached(parent, d) :
            \A k \in Unreached(parent, d) :
                msv[j] < msv[k] \/ (msv[j] = msv[k] /\ j <= k)

\* RelabelWorkers without the test of line 294: every worker's label is
\* raised.
RelabelWorkersAll(lw, cw, slack, d) == [w \in Idx(d) |-> lw[w] + slack]

\* Lines 293-297.
RelabelWorkers(lw, cw, slack, d) ==
    [w \in Idx(d) |-> IF cw[w] THEN lw[w] + slack ELSE lw[w]]

\* RelabelJobs without line 300: the labels of reached jobs stay.
RelabelJobsKept(lj, parent, slack, d) == lj

\* Lines 298-300.
RelabelJobs(lj, parent, slack, d) ==
    [j \in Idx(d) |-> IF parent[j] # -1 THEN lj[j] - slack ELSE lj[j]]

\* RelabelSlack without line 302: the cached slacks stay as they were.
RelabelSlackKept(msv, parent, slack, d) == msv

\* Lines 298-303.
RelabelSlack(msv, parent, slack, d) ==
    [j \in Idx(d) |-> IF parent[j] # -1 THEN msv[j] ELSE msv[j] - slack]

\* NeedsRelabel that never holds: the selected edge is used as it is.
NeedsRelabelNever(slack) == FALSE

\* Line 164: whether the labels are updated.
NeedsRelabel(slack) == slack > 0

\* Lines 152-166 of executePhase: the job of least slack is selected and,
\* when that slack is positive, updateLabeling (lines 292-305) makes its edge
\* tight.  With no job left to select, minSlackJob stays -1 and line 167
\* indexes out of range.
selectMinSlack ==
    /\ pc = "phase"
    /\ LET j == MinSlackJobOf(parentWorkerByCommittedJob, minSlackValueByJob, dim)
       IN
       IF j = -1
       THEN /\ pc' = "panic"
            /\ UNCHANGED <<labelByWorker, labelByJob, minSlackValueByJob,
                           minSlackWorker, minSlackJob>>
       ELSE LET v == minSlackValueByJob[j] IN
            /\ pc' = "extend"
            /\ minSlackJob' = j
            /\ minSlackWorker' = minSlackWorkerByJob[j]
            /\ IF NeedsRelabel(v)
               THEN /\ labelByWorker' =
                          RelabelWorkers(labelByWorker, committedWorkers, v, dim)
                    /\ labelByJob' =
                          RelabelJobs(labelByJob, parentWorkerByCommittedJob, v, dim)
                    /\ minSlackValueByJob' =
                          RelabelSlack(minSlackValueByJob,
                                       parentWorkerByCommittedJob, v, dim)
               ELSE UNCHANGED <<labelByWorker, labelByJob, minSlackValueByJob>>
    /\ UNCHANGED <<input, err, costMatrix, rows, cols, dim,
                   minSlackWorkerByJob, matchJobByWorker, matchWorkerByJob,
                   parentWorkerByCommittedJob, committedWorkers, result>>

\* Lines 170-180: the walk back along the path, from the pair (parentWorker,
\* committedJob) on.  st is "ok" when the walk ends at the root, "panic"
\* when it indexes with the -1 of a job that has no parent, and "hang" when
\* it has made more steps than a path has edges.
RECURSIVE AugmentFrom(_, _, _, _, _)
AugmentFrom(m, parent, committedJob, parentWorker, fuel) ==
    IF parentWorker = -1 THEN [m |-> m, st |-> "panic"]
    ELSE IF fuel = 0 THEN [m |-> m, st |-> "hang"]
    ELSE LET temp == m[1][parentWorker]
             m2 == match(m, parentWorker, committedJob)
         IN  IF temp = -1 THEN [m |-> m2, st |-> "ok"]
             ELSE AugmentFrom(m2, parent, temp, parent[temp], fuel - 1)

\* Lines 167-181: the selected job is unmatched, so the path to it augments
\* the matching and the phase returns.
augment ==
    /\ pc = "extend"
    /\ matchWorkerByJob[minSlackJob] = -1
    /\ parentWorkerByCommittedJob' =
           [parentWorkerByCommittedJob EXCEPT ![minSlackJob] = minSlackWorker]
    /\ LET r == AugmentFrom(<<matchJobByWorker, matchWorkerByJob>>,
                            parentWorkerByCommittedJob', minSlackJob,
                            minSlackWorker, dim)
       IN  /\ matchJobByWorker' = r.m[1]
           /\ matchWorkerByJob' = r.m[2]
           /\ pc' = IF r.st = "ok" THEN "fetch" ELSE r.st
    /\ UNCHANGED <<input, err, costMatrix, rows, cols, dim, labelByWorker,
                   labelByJob, minSlackWorkerByJob, minSlackValueByJob,
                   committedWorkers, minSlackWorker, minSlackJob, result>>

\* CommitSlackValue without line 193: the cached slacks are not lowered.
CommitSlackValueStale(msv, parent, cm, lw, lj, worker, d) == msv

\* Lines 187-197: the cached slack of job j once worker is committed.
CommitSlackValue(msv, parent, cm, lw, lj, worker, d) ==
    [j \in Idx(d) |->
        IF parent[j] = -1 /\ msv[j] > Slack(cm, lw, lj, worker, j)
        THEN Slack(cm, lw, lj, worker, j) ELSE msv[j]]

\* Lines 187-197: the worker that attains the cached slack of job j.
CommitSlackWorker(msw, msv, parent, cm, lw, lj, worker, d) ==
    [j \in Idx(d) |->
        IF parent[j] = -1 /\ msv[j] > Slack(cm, lw, lj, worker, j)
        THEN worker ELSE msw[j]]

\* Lines 167 and 182-198: the selected job is matched, so its worker joins
\* the tree and the cached slacks take its edges into account.
commitWorker ==
    /\ pc = "extend"
    /\ matchWorkerByJob[minSlackJob] # -1
    /\ parentWorkerByCommittedJob' =
           [parentWorkerByCommittedJob EXCEPT ![minSlackJob] = minSlackWorker]
    /\ LET worker == matchWorkerByJob[minSlackJob] IN
       /\ committedWorkers' = [committedWorkers EXCEPT ![worker] = TRUE]
       /\ minSlackValueByJob' =
              CommitSlackValue(minSlackValueByJob, parentWorkerByCommittedJob',
                               costMatrix, labelByWorker, labelByJob, worker, dim)
       /\ minSlackWorkerByJob' =
              CommitSlackWorker(minSlackWorkerByJob, minSlackValueByJob,
                                parentWorkerByCommittedJob', costMatrix,
                                labelByWorker, labelByJob, worker, dim)
    /\ pc' = "phase"
    /\ UNCHANGED <<input, err, costMatrix, rows, cols, dim, labelByWorker,
                   labelByJob, matchJobByWorker, matchWorkerByJob,
                   minSlackWorker, minSlackJob, result>>

\* Trim with > for >= at line 127: the first job of the padding is kept.
TrimAbove(mjw, r, c) == [w \in Idx(r) |-> IF mjw[w] > c THEN -1 ELSE mjw[w]]

\* Lines 125-131: the first rows entries, a job of the padding made -1.
Trim(mjw, r, c) == [w \in Idx(r) |-> IF mjw[w] >= c THEN -1 ELSE mjw[w]]

\* Lines 121 and 125-131: no worker is unmatched, the loop ends and the
\* result is cut out of matchJobByWorker, whose entries it shares.
extract ==
    /\ pc = "fetch"
    /\ fetchUnmatchedWorker(matchJobByWorker, dim) = dim
    /\ result' = Trim(matchJobByWorker, rows, cols)
    /\ matchJobByWorker' =
           [w \in Idx(dim) |->
               IF w < rows THEN Trim(matchJobByWorker, rows, cols)[w]
               ELSE matchJobByWorker[w]]
    /\ pc' = "done"
    /\ UNCHANGED <<input, err, costMatrix, rows, cols, dim, labelByWorker,
                   labelByJob, minSlackWorkerByJob, minSlackValueByJob,
                   matchWorkerByJob, parentWorkerByCommittedJob,
                   committedWorkers, minSlackWorker, minSlackJob>>

-----------------------------------------------------------------------------
(* Specifications.                                                         *)

\* Before the constructor runs there is no solver: its fields are empty.
NoSolver ==
    /\ pc = "new"
    /\ err = ""
    /\ costMatrix = <<>>
    /\ rows = 0
    /\ cols = 0
    /\ dim = 0
    /\ labelByWorker = <<>>
    /\ labelByJob = <<>>
    /\ minSlackWorkerByJob = <<>>
    /\ minSlackValueByJob = <<>>
    /\ matchJobByWorker = <<>>
    /\ matchWorkerByJob = <<>>
    /\ parentWorkerByCommittedJob = <<>>
    /\ committedWorkers = <<>>
    /\ minSlackWorker = -1
    /\ minSlackJob = -1
    /\ result = <<>>

Init == (IsIntMatrix(input) \/ IsJudgedMatrix(input)) /\ NoSolver

InitTest == input \in ZeroFifthRowMatrices /\ NoSolver

Next ==
    \/ NewHungarianAlgorithm
    \/ reduce
    \/ computeInitialFeasibleSolution
    \/ greedyMatch
    \/ initializePhase
    \/ selectMinSlack
    \/ augment
    \/ commitWorker
    \/ extract

Spec == Init /\ [][Next]_vars

\* The solver on the 5 x 4 matrices with an all-zero fifth row.
SpecTest == InitTest /\ [][Next]_vars

-----------------------------------------------------------------------------
(* Vocabulary of the properties.                                           *)

NumRows == Len0(input)

NumCols == Len0(input[0])

\* Every row is as long as the first one.
Regular == \A w \in DOMAIN input : Len0(input[w]) = NumCols

\* No entry is an infinity or a NaN.
AllFinite == \A w \in DOMAIN input : \A j \in DOMAIN input[w] : input[w][j].k = "num"

\* A matrix the constructor is specified to accept.
ValidMatrix == NumRows >= 1 /\ Regular /\ AllFinite

\* The constructor has returned or aborted.
Constructed == pc # "new"

\* The constructor returned a solver: Execute is running or has returned.
Executing == pc \in {"reduce", "label", "greedy", "fetch", "phase", "extend", "done"}

Unassigned(res) == {w \in DOMAIN res : res[w] = -1}

\* res gives pairwise distinct jobs of 0..c-1 to the workers it assigns.
DistinctJobs(res, c) ==
    /\ \A w \in DOMAIN res : res[w] = -1 \/ res[w] \in Idx(c)
    /\ \A w1, w2 \in DOMAIN res :
          (w1 # w2 /\ res[w1] # -1) => res[w1] # res[w2]

RECURSIVE SumOver(_, _)
SumOver(f, S) ==
    IF S = {} THEN 0
    ELSE LET x == CHOOSE y \in S : TRUE IN f[x] + SumOver(f, S \ {x})

\* The cost of the assignment res on the caller's matrix.
AssignedCost(res) ==
    SumOver([w \in DOMAIN res |-> IF res[w] = -1 THEN 0 ELSE input[w][res[w]].v],
            DOMAIN res)

RECURSIVE Cheapest(_, _, _)
\* The reference: the least total of all ways to give k more distinct jobs,
\* none of them in used, to workers w, w+1, ... of the caller's matrix, some
\* of whom get no job when they are more than k.
Cheapest(w, used, k) ==
    IF k = 0 THEN 0
    ELSE SetMin((IF NumRows - w > k THEN {Cheapest(w + 1, used, k)} ELSE {})
                \cup {input[w][j].v + Cheapest(w + 1, used \cup {j}, k - 1) :
                        j \in Idx(NumCols) \ used})

MinOf(a, b) == IF a < b THEN a ELSE b

\* The least total cost over the assignments of min(rows, cols) workers.
Optimum == Cheapest(0, {}, MinOf(NumRows, NumCols))

Matched == {w \in Idx(dim) : matchJobByWorker[w] # -1}

\* The two matching arrays are inverse to each other.
MatchingConsistent ==
    /\ \A w \in Idx(dim) :
          matchJobByWorker[w] # -1 => matchWorkerByJob[matchJobByWorker[w]] = w
    /\ \A j \in Idx(dim) :
          matchWorkerByJob[j] # -1 => matchJobByWorker[matchWorkerByJob[j]] = j

-----------------------------------------------------------------------------
(* Properties of the result.                                               *)

\* C1 (optimality): whenever the constructor succeeded and Execute has
\* returned, the result gives distinct jobs to min(rows, cols) workers and
\* its total cost on the caller's unreduced matrix is the least total cost
\* of all such assignments.
C1_Optimality ==
    pc = "done" =>
        /\ DistinctJobs(result, NumCols)
        /\ Cardinality(DOMAIN result \ Unassigned(result)) = MinOf(NumRows, NumCols)
        /\ AssignedCost(result) = Optimum

\* Execute returned an assignment that uses a negative cost and that the
\* greedy matching alone did not find (a label was raised).
C1_Witness ==
    /\ pc = "done"
    /\ NumRows >= 2
    /\ \E w \in DOMAIN result :
          result[w] # -1 /\ input[w][result[w]].v < 0
    /\ \E w \in Idx(dim) : labelByWorker[w] > 0

\* C2 (cardinality, rows >= cols): for every valid matrix with rows >= 1 and
\* rows >= cols >= 0 the constructor succeeds, and the result of Execute has
\* rows entries, exactly rows - cols of them -1 and the others pairwise
\* distinct jobs of 0..cols-1.
C2_Cardinality ==
    (Constructed /\ ValidMatrix /\ NumRows >= NumCols) =>
        /\ Executing
        /\ pc = "done" =>
              /\ DOMAIN result = Idx(NumRows)
              /\ Cardinality(Unassigned(result)) = NumRows - NumCols
              /\ DistinctJobs(result, NumCols)

\* Execute returned for a matrix with more workers than jobs and at least
\* two jobs.
C2_Witness ==
    /\ pc = "done"
    /\ NumRows > NumCols
    /\ NumCols >= 2
    /\ Unassigned(result) # {}

\* C3 (more jobs than workers): for every valid matrix with 1 <= rows < cols
\* the constructor succeeds, and the result of Execute has rows entries, none
\* of them -1, that are pairwise distinct jobs of 0..cols-1.
C3_MoreJobsThanWorkers ==
    (Constructed /\ ValidMatrix /\ NumRows < NumCols) =>
        /\ Executing
        /\ pc = "done" =>
              /\ DOMAIN result = Idx(NumRows)
              /\ Unassigned(result) = {}
              /\ DistinctJobs(result, NumCols)

-----------------------------------------------------------------------------
(* Properties of the constructor.                                          *)

\* Some row is not as long as the first one.
Irregular == NumRows >= 1 /\ ~Regular

\* The first row that is not as long as the first one.
FirstIrregularRow == SetMin({w \in DOMAIN input : Len0(input[w]) # NumCols})

\* C4 as stated (irregular input): whatever its entries are, a matrix with a
\* row whose length differs from the first row's makes the constructor fail
\* with the irregular-cost-matrix error.
C4_IrregularAlways ==
    (Constructed /\ Irregular) =>
        (pc = "error" /\ err = ErrorIrregularCostMatrix)

\* C4 as amended: a matrix with a row whose length differs from the first
\* row's, and with no infinite or NaN entry in the rows before the first such
\* row, makes the constructor fail with the irregular-cost-matrix error.
C4_IrregularUnlessEarlierEntry ==
    (/\ Constructed
     /\ Irregular
     /\ \A w \in Idx(FirstIrregularRow) : RowError(input[w], 0) = "") =>
        (pc = "error" /\ err = ErrorIrregularCostMatrix)

\* The constructor reported an irregular matrix whose first irregular row
\* holds an infinity or a NaN.
C4_Witness ==
    /\ pc = "error"
    /\ err = ErrorIrregularCostMatrix
    /\ Irregular
    /\ RowError(input[FirstIrregularRow], 0) # ""

\* C5 (zero rows): for a matrix of no rows the constructor returns no error
\* and Execute returns an empty result.
C5_ZeroRows ==
    (Constructed /\ NumRows = 0) =>
        /\ Executing
        /\ pc = "done" => result = <<>>

-----------------------------------------------------------------------------
(* The 5 x 4 matrices with an all-zero fifth row (SpecTest).                *)

ZeroFifthRow ==
    /\ NumRows = 5
    /\ NumCols = 4
    /\ \A j \in Idx(4) : input[4][j] = Num(0)

\* C6 as stated: for a 5 x 4 matrix with an all-zero fifth row the result
\* has exactly one -1, at the index of the fifth worker.
C6_FifthWorkerLeftOut ==
    (pc = "done" /\ ZeroFifthRow) =>
        (Cardinality(Unassigned(result)) = 1 /\ result[4] = -1)

\* C6 as amended: for a 5 x 4 matrix with an all-zero fifth row the result
\* has exactly one -1; for the matrix of the "unassigned worker" test it is
\* at index 1, the result being [1, -1, 2, 3, 0] as that test expects.
C6_OneWorkerLeftOut ==
    (pc = "done" /\ ZeroFifthRow) =>
        /\ Cardinality(Unassigned(result)) = 1
        /\ input = UnassignedWorkerTest =>
              result = [w \in Idx(5) |-> <<1, -1, 2, 3, 0>>[w + 1]]

\* Execute returned for the matrix of the "unassigned worker" test.
C6_Witness ==
    /\ pc = "done"
    /\ input = UnassignedWorkerTest
    /\ Cardinality(Unassigned(result)) = 1

-----------------------------------------------------------------------------
(* Properties of the phase loop.                                           *)

\* What one step of Execute does to the matching and to the tree.
PhaseProgress ==
    \* executePhase selects a job as long as it runs: it never indexes with -1.
    /\ pc = "phase" => pc' = "extend"
    \* A tree-growth step reaches one more job and leaves the matching alone.
    /\ (pc = "extend" /\ matchWorkerByJob[minSlackJob] # -1) =>
          /\ pc' = "phase"
          /\ Cardinality(Unreached(parentWorkerByCommittedJob', dim)) =
                Cardinality(Unreached(parentWorkerByCommittedJob, dim)) - 1
    /\ pc \in {"fetch", "phase"} =>
          (Matched' = Matched \/ pc' = "done")
    \* The phase returns with one more worker matched and none unmatched.
    /\ (pc = "extend" /\ matchWorkerByJob[minSlackJob] = -1) =>
          /\ pc' = "fetch"
          /\ Matched \subseteq Matched'
          /\ Cardinality(Matched') = Cardinality(Matched) + 1
          /\ MatchingConsistent'
    \* Execute returns only when every worker of the padded matrix is matched.
    /\ pc' = "done" => Matched = Idx(dim)

\* A number that every step of Execute makes smaller and that is never
\* negative: the calls before the loop count down above the largest value of
\* the loop; in the loop a phase counts for more than its 2 * dim + 2 steps,
\* and a step of a phase counts the jobs the tree has yet to reach.
Measure ==
    LET phaseSize == 2 * dim + 3
        unmatched == dim - Cardinality(Matched)
        unreached == Cardinality(Unreached(parentWorkerByCommittedJob, dim))
    IN  CASE pc = "reduce" -> (dim + 1) * phaseSize + 3
          [] pc = "label"  -> (dim + 1) * phaseSize + 2
          [] pc = "greedy" -> (dim + 1) * phaseSize + 1
          [] pc = "fetch"  -> unmatched * phaseSize + 2 * dim + 2
          [] pc = "phase"  -> unmatched * phaseSize + 2 * unreached + 1
          [] pc = "extend" -> unmatched * phaseSize + 2 * unreached
          [] OTHER         -> 0

\* Execute is still running.
Running == pc \in {"reduce", "label", "greedy", "fetch", "phase", "extend"}

C8_DualFeasibility ==
    pc \in {"greedy", "fetch", "phase", "extend", "done"} =>
        \A w \in Idx(dim), j \in Idx(dim) :
            labelByWorker[w] + labelByJob[j] <= costMatrix[w][j]

\* The labels have just been updated with a job in the tree: the label of a
\* reached job went below the column minimum it started from.
C8_Witness ==
    /\ pc = "extend"
    /\ NeedsRelabel(labelByWorker[minSlackWorker])
    /\ \E j \in Idx(dim) :
          parentWorkerByCommittedJob[j] # -1 /\ labelByJob[j] < 0

\* C9 (tight matching): after greedyMatch and after every later step, every
\* matched pair has zero slack.
C9_TightMatching ==
    pc \in {"fetch", "phase", "extend", "done"} =>
        \A w \in Idx(dim) :
            matchJobByWorker[w] # -1 =>
                Slack(costMatrix, labelByWorker, labelByJob,
                      w, matchJobByWorker[w]) = 0

\* A matched pair whose two labels were both changed by updateLabeling.
C9_Witness ==
    /\ pc \in {"fetch", "phase", "extend"}
    /\ \E w \in Idx(dim) :
          /\ matchJobByWorker[w] # -1
          /\ labelByWorker[w] > 0
          /\ labelByJob[matchJobByWorker[w]] < 0

Committed == {w \in Idx(dim) : committedWorkers[w]}

\* C10 (slack cache): at the start of every iteration of executePhase, for
\* every job j not reached, minSlackValueByJob[j] is the least slack of j
\* against the committed workers and minSlackWorkerByJob[j] is a committed
\* worker that attains it; so the amount of a relabelling is not negative,
\* and once the labels are updated the selected edge is tight.
C10_SlackCache ==
    /\ pc = "phase" =>
          \A j \in Unreached(parentWorkerByCommittedJob, dim) :
              /\ minSlackValueByJob[j] =
                    SetMin({Slack(costMatrix, labelByWorker, labelByJob, w, j) :
                            w \in Committed})
              /\ minSlackWorkerByJob[j] \in Committed
              /\ Slack(costMatrix, labelByWorker, labelByJob,
                       minSlackWorkerByJob[j], j) = minSlackValueByJob[j]
              /\ minSlackValueByJob[j] >= 0
    /\ pc = "extend" =>
          /\ minSlackWorker \in Committed
          /\ parentWorkerByCommittedJob[minSlackJob] = -1
          /\ Slack(costMatrix, labelByWorker, labelByJob,
                   minSlackWorker, minSlackJob) = 0

\* An iteration starts with two committed workers, raised labels, and a job
\* whose least slack is attained by the worker committed last.
C10_Witness ==
    /\ pc = "phase"
    /\ Cardinality(Committed) >= 2
    /\ \E w \in Committed : labelByWorker[w] > 0
    /\ \E j \in Unreached(parentWorkerByCommittedJob, dim) :
          minSlackWorkerByJob[j] # fetchUnmatchedWorker(matchJobByWorker, dim)

=============================================================================
